---- MODULE Spec2Model ----
(***************************************************************************)
(* A model of pytrace_method/tracer.py: the CallTracer session object,     *)
(* its sys.settrace callback (the call-stack assembler), the value         *)
(* formatter, the ignore policy and the exporters.                         *)
(*                                                                         *)
(* Python strings are sequences of one-character strings, so that repr,    *)
(* slicing, startswith, `in` and split are computed as Python computes     *)
(* them.  Python values are records tagged by their type.                  *)
(***************************************************************************)
EXTENDS Integers, Sequences, FiniteSets, TLC

(***************************************************************************)
(* Bounds of the model.                                                    *)
(***************************************************************************)
\* self.max_depth, 100 in the source (tracer.py:26), scaled down so that the
\* depth guard is reached.
max_depth == 2
\* how many frames the traced program may have open at once
MaxFrames == 3
\* the length of a run: a call of a routine and an Idle -> Active transition
\* count 1 each, a configuration toggle counts 2; returns and end() are
\* bounded by these
MaxWork == 5
\* the length of the call chain of the specification SpecChain is
\* max_depth + ChainExtra
ChainExtra == 5

(***************************************************************************)
(* Python strings and values.                                              *)
(***************************************************************************)
NoneV == [t |-> "none"]
IntV(n) == [t |-> "int", n |-> n]
StrV(s) == [t |-> "str", s |-> s]
\* containers: items is the sequence of the elements, in iteration order
ListV(items) == [t |-> "list", items |-> items]
TupleV(items) == [t |-> "tuple", items |-> items]
SetV(items) == [t |-> "set", items |-> items]
\* the list that holds itself:  l = []; l.append(l)
CycV == [t |-> "cyc"]
\* an instance of a class of the traced program.  attrs is its __dict__ (an
\* ordered mapping), has_dict tells whether it has one, dict_raises whether
\* looking at __dict__ raises, repr_raises whether its __repr__ raises
ObjV(cls, attrs, has_dict, dict_raises, repr_raises) ==
    [t |-> "obj", cls |-> cls, attrs |-> attrs, has_dict |-> has_dict,
     dict_raises |-> dict_raises, repr_raises |-> repr_raises]

IsList(val) == val.t \in {"list", "cyc"}
\* the elements of a container
Items(val) == IF val.t = "cyc" THEN <<val>> ELSE val.items

\* c * n
Repeat(c, n) == [i \in 1..n |-> c]

\* s[:n]
Prefix(s, n) == SubSeq(s, 1, IF n < Len(s) THEN n ELSE Len(s))

\* s.startswith(p)
StartsWith(s, p) == Len(p) <= Len(s) /\ SubSeq(s, 1, Len(p)) = p

\* p in s  (substring test)
Contains(s, p) ==
    \E i \in 1..(Len(s) - Len(p) + 1) : SubSeq(s, i, i + Len(p) - 1) = p

\* s.split("/")[-1]
LastSlash(s) ==
    IF \E i \in 1..Len(s) : s[i] = "/"
    THEN CHOOSE i \in 1..Len(s) :
             s[i] = "/" /\ \A j \in (i + 1)..Len(s) : s[j] # "/"
    ELSE 0
file_short(s) == SubSeq(s, LastSlash(s) + 1, Len(s))

Digits == <<"0", "1", "2", "3", "4", "5", "6", "7", "8", "9">>
RECURSIVE NatRepr(_)
NatRepr(n) ==
    IF n < 10 THEN <<Digits[n + 1]>>
    ELSE NatRepr(n \div 10) \o <<Digits[(n % 10) + 1]>>

RECURSIVE Join(_, _)
Join(sep, strs) ==
    IF strs = <<>> THEN <<>>
    ELSE IF Len(strs) = 1 THEN strs[1]
    ELSE strs[1] \o sep \o Join(sep, Tail(strs))

\* does repr(val) raise: an object whose __repr__ raises, or a container
\* that holds one
RECURSIVE ReprRaises(_)
ReprRaises(val) ==
    CASE val.t = "obj" -> val.repr_raises
      [] val.t \in {"list", "tuple", "set"} ->
             \E i \in DOMAIN val.items : ReprRaises(val.items[i])
      [] OTHER -> FALSE

\* repr(val) for the values of the model, when it does not raise.  The
\* strings of the model hold no quote and no backslash, so repr of a string
\* only adds the quotes; the default repr of an object is written without
\* its module and address; repr of a list that is being repr'd is [...]
RECURSIVE repr(_)
repr(val) ==
    CASE val.t = "none" -> <<"N", "o", "n", "e">>
      [] val.t = "int" -> IF val.n < 0 THEN <<"-">> \o NatRepr(0 - val.n)
                                        ELSE NatRepr(val.n)
      [] val.t = "str" -> <<"'">> \o val.s \o <<"'">>
      [] val.t = "list" ->
             <<"[">> \o Join(<<",", " ">>,
                             [i \in DOMAIN val.items |-> repr(val.items[i])])
                    \o <<"]">>
      [] val.t = "cyc" -> <<"[", "[", ".", ".", ".", "]", "]">>
      [] val.t = "tuple" ->
             IF Len(val.items) = 1
             THEN <<"(">> \o repr(val.items[1]) \o <<",", ")">>
             ELSE <<"(">> \o Join(<<",", " ">>,
                             [i \in DOMAIN val.items |-> repr(val.items[i])])
                         \o <<")">>
      [] val.t = "set" ->
             IF val.items = <<>> THEN <<"s", "e", "t", "(", ")">>
             ELSE <<"{">> \o Join(<<",", " ">>,
                             [i \in DOMAIN val.items |-> repr(val.items[i])])
                         \o <<"}">>
      [] val.t = "obj" ->
             <<"<">> \o val.cls \o <<" ","o","b","j","e","c","t",">">>

\* str(val), as the f-strings of print_tree apply it
str(val) == IF val.t = "str" THEN val.s ELSE repr(val)

Ellipsis == <<".", ".", ".">>

(***************************************************************************)
(* Constants of CallTracer.__init__.                                       *)
(***************************************************************************)
max_param_len == 50
\* the default of the parameter max_depth of _to_serializable
serial_max_depth == 10

exclude_patterns ==
    { <<"s","i","t","e","-","p","a","c","k","a","g","e","s">>,
      <<"t","h","r","e","a","d","i","n","g",".","p","y">>,
      <<"a","t","e","x","i","t",".","p","y">> }

\* os.path.dirname(os.__file__) of the interpreter running the program
stdlib_path == <<"/","u","s","r","/","l","i","b","/","p","y","t","h","o","n","3">>

\* the names _should_ignore lists
InternalNames ==
    { <<"t","r","a","c","e","r">>,
      <<"_","s","h","o","u","l","d","_","i","g","n","o","r","e">>,
      <<"_","f","o","r","m","a","t","_","v","a","l","u","e">>,
      <<"_","e","x","p","a","n","d","_","o","b","j","e","c","t">>,
      <<"s","t","a","r","t">>,
      <<"e","n","d">>,
      <<"_","_","e","n","t","e","r","_","_">>,
      <<"_","_","e","x","i","t","_","_">>,
      <<"e","x","p","a","n","d">>,
      <<"i","n","t","e","r","a","c","t","i","v","e">>,
      <<"p","r","i","n","t","_","t","r","e","e">>,
      <<"w","r","i","t","e","_","t","o","_","f","i","l","e">>,
      <<"_","w","r","i","t","e","_","t","r","e","e">>,
      <<"_","t","o","_","s","e","r","i","a","l","i","z","a","b","l","e">>,
      <<"s","a","v","e">>,
      <<"i","n","c","l","u","d","e","_","s","t","d","l","i","b">>,
      <<"_","n","o","d","e","_","t","o","_","d","i","c","t">>,
      <<"_","g","e","n","e","r","a","t","e","_","h","t","m","l">>,
      <<"_","r","e","g","i","s","t","e","r","_","a","u","t","o","_","e","n","d">>,
      <<"_","a","u","t","o","_","e","n","d">> }

(***************************************************************************)
(* The traced program: the routines it calls and the values it passes.     *)
(***************************************************************************)
AppFile == <<"/","a","p","p","/","m","a","i","n",".","p","y">>
LibFile == <<"/","u","s","r","/","l","i","b","/","p","y","t","h","o","n","3","/","j","s","o","n",".","p","y">>

\* a string whose repr is longer than max_param_len
LongStr == StrV(Repeat("a", 60))

\* the routines of the traced program: [name, file, params, ret].  params is
\* the ordered mapping of argument names to the values bound to them, as
\* inspect.getargvalues gives them; ret is the value the routine returns
Routines ==
    { [name |-> <<"o","u","t","e","r">>, file |-> AppFile,
       params |-> <<[k |-> <<"x">>, v |-> IntV(1)]>>, ret |-> IntV(3)],
      [name |-> <<"i","n","n","e","r">>, file |-> AppFile,
       params |-> <<[k |-> <<"y">>, v |-> LongStr]>>, ret |-> LongStr],
      [name |-> <<"s","a","v","e">>, file |-> AppFile, params |-> <<>>,
       ret |-> NoneV],
      [name |-> <<"d","u","m","p","s">>, file |-> LibFile,
       params |-> <<[k |-> <<"o">>, v |-> IntV(2)]>>, ret |-> StrV(<<"2">>)] }

SaveTargets == { <<"t",".","t","x","t">> }
HtmlTargets == { <<"t",".","h","t","m","l">> }
ExpandDepths == { 1 }

(***************************************************************************)
(* The state.                                                              *)
(***************************************************************************)
VARIABLES
    \* ---- the fields of CallTracer (tracer.py:21-36) ----
    call_stack,          \* list of node references, innermost last
    root,                \* node reference, 0 for None
    enabled,
    save_file,           \* None or a string
    expand_objects,
    expand_depth,
    interactive_html,
    auto_end_registered,
    trace_stdlib,
    \* ---- the heap of Node objects: a reference is an index ----
    nodes,
    \* ---- the interpreter and the traced program ----
    settrace,            \* is a trace function installed (sys.settrace)
    atexit_handlers,     \* how many times _auto_end is registered with atexit
    frames,              \* the frames of the traced program, innermost last
    output,              \* what the exporters wrote in the last end() that
                         \* ran them
    \* ---- history (not read by the program) ----
    session,             \* number of Idle -> Active transitions so far
    events,              \* the events delivered to the Active session
    born,                \* born[n]: the session that made node n and the
                         \* index of its enter event in that session's events
    exports,             \* number of end() calls that ran the exporters
    work,                \* the length of the run so far (see MaxWork)
    last,                \* the operation of the last step, and whether the
                         \* session was Active when it was called
    \* ---- the formatter applied to a value on its own ----
    fmt_val,             \* the value handed to the formatter
    fmt_res,             \* what the formatter did with it
    \* ---- the scoped use:  with trace: ... ----
    scopes,              \* how many with-blocks of the session are open
    failure              \* of the last with-block left: was an exception in
                         \* flight when it was left, and does it propagate
                         \* to the code around the block

tracerVars == <<call_stack, root, enabled, save_file, expand_objects,
                expand_depth, interactive_html, auto_end_registered,
                trace_stdlib, nodes>>
envVars == <<settrace, atexit_handlers, frames, output>>
histVars == <<session, events, born, exports, work, last>>
fmtVars == <<fmt_val, fmt_res>>
scopeVars == <<scopes, failure>>
vars == <<tracerVars, envVars, histVars, fmtVars, scopeVars>>

\* class Node
Node(name, params, file) ==
    [name |-> name, params |-> params, file |-> file,
     return_val |-> NoneV, children |-> <<>>]

Top(stack) == stack[Len(stack)]
Pop(stack) == SubSeq(stack, 1, Len(stack) - 1)

(***************************************************************************)
(* The value formatter.                                                    *)
(***************************************************************************)
\* "[i]: " with i counted from 0
IndexLabel(i) == <<"[">> \o NatRepr(i - 1) \o <<"]", ":", " ">>

\* the attributes _expand_object and _to_serializable look at
IsPublic(a) == ~StartsWith(a.k, <<"_">>)
PublicAttrs(obj) == SelectSeq(obj.attrs, IsPublic)

\* does _expand_object(obj, current_depth) raise, with expand_depth = ed.
\* The branch of the custom objects runs under try/except: whatever raises
\* there is swallowed and the fallback repr(obj), which is outside the try,
\* runs
RECURSIVE ExpandRaises(_, _, _)
ExpandRaises(obj, current_depth, ed) ==
    CASE obj.t \in {"list", "tuple", "cyc"} ->
             /\ Items(obj) # <<>>
             /\ ~(current_depth >= ed - 1)
             /\ \E i \in DOMAIN Prefix(Items(obj), 10) :
                    ExpandRaises(Items(obj)[i], current_depth + 1, ed)
      [] obj.t = "set" ->
             /\ obj.items # <<>>
             /\ ~(current_depth >= ed - 1)
             /\ \E i \in DOMAIN Prefix(obj.items, 10) :
                    ReprRaises(obj.items[i])
      [] obj.t = "obj" ->
             LET returns_in_try ==
                     /\ ~obj.dict_raises
                     /\ obj.has_dict
                     /\ \/ current_depth >= ed - 1
                        \/ \A i \in DOMAIN PublicAttrs(obj) :
                               ~ExpandRaises(PublicAttrs(obj)[i].v,
                                             current_depth + 1, ed)
             IN  ~returns_in_try /\ ReprRaises(obj)
      [] OTHER -> FALSE

\* _expand_object(obj, current_depth) with expand_depth = ed, when it does
\* not raise
RECURSIVE ExpandObject(_, _, _)
ExpandObject(obj, current_depth, ed) ==
    LET indent == Repeat(" ", 2 * current_depth)
        next_indent == Repeat(" ", 2 * (current_depth + 1))
        n == Len(Items(obj))
        shown == Prefix(Items(obj), 10)
        more(what) ==
            IF n > 10
            THEN << next_indent \o <<".", ".", ".", " ", "(">>
                        \o NatRepr(n - 10) \o <<" ","m","o","r","e"," ">>
                        \o what \o <<")">> >>
            ELSE <<>>
        entries ==
            [i \in DOMAIN shown |->
                next_indent \o IndexLabel(i)
                    \o ExpandObject(shown[i], current_depth + 1, ed)]
        sequence(open, close) ==
            IF n = 0 THEN open \o close
            ELSE IF current_depth >= ed - 1
            THEN open \o NatRepr(n) \o <<" ","i","t","e","m","s">> \o close
            ELSE open \o <<"\n">>
                     \o Join(<<",", "\n">>,
                             entries \o more(<<"i","t","e","m","s">>))
                     \o <<"\n">> \o indent \o close
        fallback ==
            LET s == repr(obj)
            IN  IF Len(s) > 200 THEN Prefix(s, 200) \o Ellipsis ELSE s
        bare == <<"<">> \o obj.cls \o <<" ","o","b","j","e","c","t",">">>
    IN  CASE obj.t = "none" -> <<"N", "o", "n", "e">>
          [] obj.t = "int" -> repr(obj)
          [] obj.t = "str" ->
                 IF Len(obj.s) > 100
                 THEN <<"'">> \o Prefix(obj.s, 100) \o Ellipsis \o <<"'">>
                 ELSE repr(obj)
          [] IsList(obj) -> sequence(<<"[">>, <<"]">>)
          [] obj.t = "tuple" -> sequence(<<"(">>, <<")">>)
          [] obj.t = "set" ->
                 IF n = 0 THEN <<"s", "e", "t", "(", ")">>
                 ELSE IF current_depth >= ed - 1
                 THEN <<"{">> \o NatRepr(n) \o <<" ","i","t","e","m","s","}">>
                 ELSE <<"{">> \o Join(<<",", " ">>,
                                      [i \in DOMAIN shown |-> repr(shown[i])])
                             \o <<"}">>
          [] obj.t = "obj" ->
                 IF obj.dict_raises \/ ~obj.has_dict THEN fallback
                 ELSE IF current_depth >= ed - 1 THEN bare
                 ELSE IF \E i \in DOMAIN PublicAttrs(obj) :
                            ExpandRaises(PublicAttrs(obj)[i].v,
                                         current_depth + 1, ed)
                 THEN fallback
                 ELSE IF PublicAttrs(obj) = <<>> THEN bare
                 ELSE LET attrs == Prefix(PublicAttrs(obj), 10)
                      IN  <<"<">> \o obj.cls \o <<">", "\n">>
                              \o Join(<<"\n">>,
                                   [i \in DOMAIN attrs |->
                                       next_indent \o attrs[i].k \o <<":", " ">>
                                           \o ExpandObject(attrs[i].v,
                                                  current_depth + 1, ed)])
                              \o <<"\n">> \o indent

\* does _format_value raise under the configuration (eo, ed)
FormatRaises(val, max_len, current_depth, eo, ed) ==
    IF eo /\ current_depth < ed
    THEN ExpandRaises(val, current_depth, ed)
    ELSE ReprRaises(val)

\* a variant of _format_value that cuts so that the result, marker included,
\* is max_len long
FormatValue_CutToFit(val, max_len, current_depth, eo, ed) ==
    IF eo /\ current_depth < ed
    THEN ExpandObject(val, current_depth, ed)
    ELSE LET s == repr(val)
         IN  IF Len(s) > max_len
             THEN Prefix(s, max_len - 3) \o Ellipsis
             ELSE s

\* _format_value under the configuration (eo, ed) = (expand_objects,
\* expand_depth), when it does not raise
FormatValue(val, max_len, current_depth, eo, ed) ==
    IF eo /\ current_depth < ed
    THEN ExpandObject(val, current_depth, ed)
    ELSE LET s == repr(val)
         IN  IF Len(s) > max_len THEN Prefix(s, max_len) \o Ellipsis ELSE s

_expand_object(obj, current_depth) ==
    ExpandObject(obj, current_depth, expand_depth)

_format_value(val) ==
    FormatValue(val, max_param_len, 0, expand_objects, expand_depth)

\* what the tracer stores for a value: the raw value in interactive mode,
\* the display string otherwise (tracer.py:314-317, 333-336)
Stored(val, im, eo, ed) ==
    IF im THEN val ELSE StrV(FormatValue(val, max_param_len, 0, eo, ed))

StoredParams(params, im, eo, ed) ==
    [i \in DOMAIN params |->
        [k |-> params[i].k, v |-> Stored(params[i].v, im, eo, ed)]]

(***************************************************************************)
(* The ignore policy.                                                      *)
(***************************************************************************)
ShouldIgnore(file_name, func_name, ts) ==
    \/ StartsWith(func_name, <<"<">>)
    \/ func_name \in InternalNames
    \/ \E pattern \in exclude_patterns : Contains(file_name, pattern)
    \/ ~ts /\ StartsWith(file_name, stdlib_path)

\* a variant of _should_ignore without the list of the tracer's own methods
_should_ignore_NoInternal(file_name, func_name) ==
    \/ StartsWith(func_name, <<"<">>)
    \/ \E pattern \in exclude_patterns : Contains(file_name, pattern)
    \/ ~trace_stdlib /\ StartsWith(file_name, stdlib_path)

_should_ignore(file_name, func_name) ==
    ShouldIgnore(file_name, func_name, trace_stdlib)

(***************************************************************************)
(* The exporters.  The console is the sequence of the strings printed, a   *)
(* file the sequence of the strings written to it.                         *)
(***************************************************************************)
\* the line print_tree and _write_tree build for one node
TreeLine(node, indent) ==
    LET space == Repeat(" ", 2 * indent)
        param_str ==
            Join(<<",", " ">>,
                 [i \in DOMAIN node.params |->
                     node.params[i].k \o <<"=">> \o str(node.params[i].v)])
    IN  space \o node.name \o <<"(">> \o param_str \o <<")"," ","-",">"," ">>
              \o str(node.return_val) \o <<" ", "[">> \o file_short(node.file)
              \o <<"]">>

\* the text the console and the file exporter write for an absent root
NoCallsTraced == <<"N","o"," ","c","a","l","l","s"," ","t","r","a","c","e","d",".">>

RECURSIVE PrintNode(_, _, _), PrintChildren(_, _, _)
PrintNode(heap, id, indent) ==
    <<TreeLine(heap[id], indent)>>
        \o PrintChildren(heap, heap[id].children, indent + 1)
PrintChildren(heap, ids, indent) ==
    IF ids = <<>> THEN <<>>
    ELSE PrintNode(heap, Head(ids), indent)
             \o PrintChildren(heap, Tail(ids), indent)

print_tree ==
    <<<<"\n","C","A","L","L"," ","T","R","A","C","E",":","\n">>>>
        \o (IF root = 0 THEN <<NoCallsTraced>>
            ELSE PrintNode(nodes, root, 0))

RECURSIVE WriteNode(_, _, _), WriteChildren(_, _, _)
WriteNode(heap, id, indent) ==
    <<TreeLine(heap[id], indent) \o <<"\n">> >>
        \o WriteChildren(heap, heap[id].children, indent + 1)
WriteChildren(heap, ids, indent) ==
    IF ids = <<>> THEN <<>>
    ELSE WriteNode(heap, Head(ids), indent)
             \o WriteChildren(heap, Tail(ids), indent)

_write_tree(id) ==
    IF id = 0 THEN <<NoCallsTraced \o <<"\n">> >>
    ELSE WriteNode(nodes, id, 0)

write_to_file == <<<<"C","A","L","L"," ","T","R","A","C","E",":","\n","\n">>>> \o _write_tree(root)

\* does _to_serializable(obj, current_depth, depth_cap) raise.  Only the
\* branch of the custom objects runs under try/except; the fallback
\* str(obj) is outside it
RECURSIVE SerializeRaises(_, _, _)
SerializeRaises(obj, current_depth, depth_cap) ==
    IF current_depth > depth_cap THEN FALSE
    ELSE CASE obj.t \in {"list", "tuple", "set", "cyc"} ->
                  \E i \in DOMAIN Items(obj) :
                      SerializeRaises(Items(obj)[i], current_depth + 1,
                                      depth_cap)
           [] obj.t = "obj" ->
                  LET returns_in_try ==
                          /\ ~obj.dict_raises
                          /\ obj.has_dict
                          /\ \A i \in DOMAIN PublicAttrs(obj) :
                                 ~SerializeRaises(PublicAttrs(obj)[i].v,
                                                  current_depth + 1, depth_cap)
                  IN  ~returns_in_try /\ ReprRaises(obj)
           [] OTHER -> FALSE

\* _to_serializable(obj, current_depth, max_depth), when it does not raise;
\* depth_cap is its parameter max_depth
RECURSIVE _to_serializable(_, _, _)
_to_serializable(obj, current_depth, depth_cap) ==
    LET children ==
            [i \in DOMAIN Items(obj) |->
                _to_serializable(Items(obj)[i], current_depth + 1, depth_cap)]
        sequence(type) ==
            [type |-> type, length |-> Len(Items(obj)), value |-> children]
    IN  IF current_depth > depth_cap
        THEN [type |-> "max_depth", value |-> StrV(Ellipsis)]
        ELSE CASE obj.t = "none" -> [type |-> "null", value |-> obj]
               [] obj.t = "int" -> [type |-> "number", value |-> obj]
               [] obj.t = "str" -> [type |-> "string", value |-> obj]
               [] IsList(obj) -> sequence("array")
               [] obj.t = "tuple" -> sequence("tuple")
               [] obj.t = "set" -> sequence("set")
               [] obj.t = "obj" ->
                      IF /\ ~obj.dict_raises
                         /\ obj.has_dict
                         /\ \A i \in DOMAIN PublicAttrs(obj) :
                                ~SerializeRaises(PublicAttrs(obj)[i].v,
                                                 current_depth + 1, depth_cap)
                      THEN [type |-> "custom", class |-> obj.cls,
                            value |->
                                [i \in DOMAIN PublicAttrs(obj) |->
                                    [k |-> PublicAttrs(obj)[i].k,
                                     v |-> _to_serializable(
                                               PublicAttrs(obj)[i].v,
                                               current_depth + 1, depth_cap)]]]
                      ELSE [type |-> "unknown", value |-> StrV(str(obj))]

RECURSIVE NodeToDict(_, _), ChildrenToDicts(_, _)
NodeToDict(heap, id) ==
    [name |-> heap[id].name,
     file |-> file_short(heap[id].file),
     params |-> [i \in DOMAIN heap[id].params |->
                    [k |-> heap[id].params[i].k,
                     v |-> _to_serializable(heap[id].params[i].v, 0,
                                            serial_max_depth)]],
     return_val |-> _to_serializable(heap[id].return_val, 0,
                                     serial_max_depth),
     children |-> ChildrenToDicts(heap, heap[id].children)]
ChildrenToDicts(heap, ids) ==
    IF ids = <<>> THEN <<>>
    ELSE <<NodeToDict(heap, Head(ids))>> \o ChildrenToDicts(heap, Tail(ids))

\* _node_to_dict(self.root): None for an absent root
_node_to_dict(id) ==
    IF id = 0 THEN [isNone |-> TRUE, dict |-> <<>>]
    ELSE [isNone |-> FALSE, dict |-> NodeToDict(nodes, id)]

\* renderNode(node) of the script of the document: the markup of the call
\* tree, of which the model keeps the header of the top node; the empty
\* string for null
renderNode(node) ==
    IF node.isNone THEN <<>>
    ELSE <<"<","d","i","v",">">> \o node.dict.name \o <<"<","/","d","i","v",">">>

\* the document _generate_html writes to filename: the data it embeds
\* (traceData) and what its script puts into the element callTree
_generate_html(filename) ==
    [sink |-> "html", target |-> filename, tree_data |-> _node_to_dict(root),
     call_tree |-> renderNode(_node_to_dict(root))]

(***************************************************************************)
(* The trace callback: CallTracer.tracer(frame, event, arg).  func_name    *)
(* and file_name are frame.f_code.co_name and co_filename, params the      *)
(* argument bindings of the frame.                                         *)
(***************************************************************************)
\* the depth guard
DepthExceeded == Len(call_stack) > max_depth

\* a variant of RootAfterCall that keeps a root that is already set
RootAfterCall_KeepFirst(node) ==
    IF call_stack # <<>> THEN root ELSE IF root = 0 THEN node ELSE root

\* a variant of RootAfterCall that makes the node of a nested call the root
RootAfterCall_Nested(node) == IF call_stack # <<>> THEN node ELSE root

\* self.root after a node is made
RootAfterCall(node) == IF call_stack # <<>> THEN root ELSE node

\* a variant of HeapAfterCall that makes the node a child of the outermost
\* node of the stack
HeapAfterCall_UnderOutermost(node) ==
    IF call_stack # <<>>
    THEN [Append(nodes, node) EXCEPT
             ![Head(call_stack)].children = Append(@, Len(nodes) + 1)]
    ELSE Append(nodes, node)

\* the heap after a node is made: it is the last child of the top of the stack
HeapAfterCall(node) ==
    IF call_stack # <<>>
    THEN [Append(nodes, node) EXCEPT
             ![Top(call_stack)].children = Append(@, Len(nodes) + 1)]
    ELSE Append(nodes, node)

\* event == "call"
TracerCall(func_name, file_name, params) ==
    LET node == Node(func_name,
                     [i \in DOMAIN params |->
                         [k |-> params[i].k,
                          v |-> IF interactive_html THEN params[i].v
                                ELSE StrV(_format_value(params[i].v))]],
                     file_name)
    IN  /\ nodes' = HeapAfterCall(node)
        /\ root' = RootAfterCall(Len(nodes) + 1)
        /\ call_stack' = Append(call_stack, Len(nodes) + 1)

\* a variant of TracerReturn that, with the stack empty, finalizes the root
TracerReturn_FinalizeRoot(arg) ==
    IF call_stack # <<>>
    THEN /\ call_stack' = Pop(call_stack)
         /\ nodes' = [nodes EXCEPT ![Top(call_stack)].return_val =
                         IF interactive_html THEN arg
                         ELSE StrV(_format_value(arg))]
         /\ root' = root
    ELSE IF root # 0
    THEN /\ nodes' = [nodes EXCEPT ![root].return_val =
                         IF interactive_html THEN arg
                         ELSE StrV(_format_value(arg))]
         /\ UNCHANGED <<call_stack, root>>
    ELSE UNCHANGED <<call_stack, root, nodes>>

\* a variant of TracerReturn that pops the outermost node (pop(0))
TracerReturn_PopFirst(arg) ==
    IF call_stack # <<>>
    THEN /\ call_stack' = Tail(call_stack)
         /\ nodes' = [nodes EXCEPT ![Head(call_stack)].return_val =
                         IF interactive_html THEN arg
                         ELSE StrV(_format_value(arg))]
         /\ root' = root
    ELSE UNCHANGED <<call_stack, root, nodes>>

\* event == "return"
TracerReturn(arg) ==
    IF call_stack # <<>>
    THEN /\ call_stack' = Pop(call_stack)
         /\ nodes' = [nodes EXCEPT ![Top(call_stack)].return_val =
                         IF interactive_html THEN arg
                         ELSE StrV(_format_value(arg))]
         /\ root' = root
    ELSE UNCHANGED <<call_stack, root, nodes>>

\* a variant of tracer without the test of self.enabled
tracer_AlsoWhenIdle(func_name, file_name, event, params, arg) ==
    IF _should_ignore(file_name, func_name)
    THEN UNCHANGED <<call_stack, root, nodes>>
    ELSE IF DepthExceeded THEN UNCHANGED <<call_stack, root, nodes>>
    ELSE IF event = "call" THEN TracerCall(func_name, file_name, params)
    ELSE IF event = "return" THEN TracerReturn(arg)
    ELSE UNCHANGED <<call_stack, root, nodes>>

tracer(func_name, file_name, event, params, arg) ==
    IF ~enabled THEN UNCHANGED <<call_stack, root, nodes>>
    ELSE IF _should_ignore(file_name, func_name)
    THEN UNCHANGED <<call_stack, root, nodes>>
    ELSE IF DepthExceeded THEN UNCHANGED <<call_stack, root, nodes>>
    ELSE IF event = "call" THEN TracerCall(func_name, file_name, params)
    ELSE IF event = "return" THEN TracerReturn(arg)
    ELSE UNCHANGED <<call_stack, root, nodes>>

\* does tracer return self.tracer (TRUE) or None (FALSE)
TracerResult(func_name, file_name) ==
    ~(enabled /\ ~_should_ignore(file_name, func_name) /\ DepthExceeded)

(***************************************************************************)
(* The session controller.                                                 *)
(***************************************************************************)
\* a variant of start that resets the session also when it is Active
start_AlsoWhenActive ==
    /\ call_stack' = <<>>
    /\ root' = 0
    /\ enabled' = TRUE
    /\ settrace' = TRUE

\* a variant of start that does not clear the root
start_KeepRoot ==
    IF ~enabled
    THEN /\ call_stack' = <<>>
         /\ root' = root
         /\ enabled' = TRUE
         /\ settrace' = TRUE
    ELSE UNCHANGED <<call_stack, root, enabled, settrace>>

start ==
    IF ~enabled
    THEN /\ call_stack' = <<>>
         /\ root' = 0
         /\ enabled' = TRUE
         /\ settrace' = TRUE
    ELSE UNCHANGED <<call_stack, root, enabled, settrace>>

\* the history of a start(), called in a step that counts cost by itself: a
\* new session begins when it was Idle
StartHistory(cost) ==
    IF ~enabled
    THEN /\ work + cost + 1 <= MaxWork
         /\ work' = work + cost + 1
         /\ session' = session + 1
         /\ events' = <<>>
    ELSE /\ work + cost <= MaxWork
         /\ work' = work + cost
         /\ UNCHANGED <<session, events>>

\* bool(self.save_file)
Truthy(val) == val.t = "str" /\ val.s # <<>>

\* the fields end() reads and writes, as a record that is handed from one
\* statement of end() to the next
EndFields ==
    [settrace |-> settrace, enabled |-> enabled,
     expand_objects |-> expand_objects, interactive_html |-> interactive_html,
     trace_stdlib |-> trace_stdlib, save_file |-> save_file,
     output |-> output]

\* sys.settrace(None)
EndUninstall(s) == [s EXCEPT !.settrace = FALSE]

\* self.enabled = False
EndDisable(s) == [s EXCEPT !.enabled = FALSE]

\* what the exporters write when end() runs them in the state s.  hook and
\* active tell whether a trace function was installed and the session
\* enabled while the exporter ran (its own calls reach the callback if so)
Exported(s) ==
    LET under(doc) ==
            [doc |-> doc, hook |-> s.settrace, active |-> s.enabled]
    IN  IF s.interactive_html THEN <<under(_generate_html(s.save_file))>>
        ELSE <<under([sink |-> "console", target |-> NoneV,
                      text |-> print_tree])>>
             \o (IF Truthy(s.save_file)
                 THEN <<under([sink |-> "file", target |-> s.save_file,
                               text |-> write_to_file])>>
                 ELSE <<>>)

\* if self.interactive_html: ... else: ...
EndExport(s) == [s EXCEPT !.output = Exported(s)]

\* a variant of EndReset that also forgets the save target
EndReset_AlsoSaveFile(s) ==
    [s EXCEPT !.expand_objects = FALSE, !.interactive_html = FALSE,
              !.trace_stdlib = FALSE, !.save_file = NoneV]

\* Reset settings for next trace
EndReset(s) ==
    [s EXCEPT !.expand_objects = FALSE, !.interactive_html = FALSE,
              !.trace_stdlib = FALSE]

\* the fields become those of the record s
EndAssign(s) ==
    /\ settrace' = s.settrace
    /\ enabled' = s.enabled
    /\ output' = s.output
    /\ expand_objects' = s.expand_objects
    /\ interactive_html' = s.interactive_html
    /\ trace_stdlib' = s.trace_stdlib
    /\ save_file' = s.save_file

\* a variant of end that runs also when the session is Idle
end_AlsoWhenIdle ==
    EndAssign(EndReset(EndExport(EndDisable(EndUninstall(EndFields)))))

\* a variant of end that resets the settings before it runs the exporters
end_ResetFirst ==
    IF ~enabled THEN EndAssign(EndFields)
    ELSE EndAssign(EndExport(EndReset(EndDisable(EndUninstall(EndFields)))))

end ==
    IF ~enabled THEN EndAssign(EndFields)
    ELSE EndAssign(EndReset(EndExport(EndDisable(EndUninstall(EndFields)))))

\* the history of an end(): the exporters run when it was Active
ExportHistory == exports' = IF enabled THEN exports + 1 ELSE exports

_register_auto_end ==
    IF ~auto_end_registered
    THEN atexit_handlers' = atexit_handlers + 1 /\ auto_end_registered' = TRUE
    ELSE UNCHANGED <<atexit_handlers, auto_end_registered>>

(***************************************************************************)
(* The steps: the operations the program under trace performs on the       *)
(* session object, and the calls and returns of its own routines, for      *)
(* which the interpreter invokes the callback.                             *)
(***************************************************************************)
Init ==
    /\ call_stack = <<>>
    /\ root = 0
    /\ enabled = FALSE
    /\ save_file = NoneV
    /\ expand_objects = FALSE
    /\ expand_depth = 2
    /\ interactive_html = FALSE
    /\ auto_end_registered = FALSE
    /\ trace_stdlib = FALSE
    /\ nodes = <<>>
    /\ settrace = FALSE
    /\ atexit_handlers = 0
    /\ frames = <<>>
    /\ output = <<>>
    /\ session = 0
    /\ events = <<>>
    /\ born = <<>>
    /\ exports = 0
    /\ work = 0
    /\ last = [op |-> "init", active |-> FALSE]
    /\ fmt_val = NoneV
    /\ fmt_res = [fn |-> "none", raised |-> FALSE, out |-> NoneV]
    /\ scopes = 0
    /\ failure = [inflight |-> FALSE, propagates |-> FALSE]

Start ==
    /\ start
    /\ StartHistory(0)
    /\ last' = [op |-> "start", active |-> enabled]
    /\ UNCHANGED <<save_file, expand_objects, expand_depth, interactive_html,
                   auto_end_registered, trace_stdlib, nodes, atexit_handlers,
                   frames, output, born, exports>>
    /\ UNCHANGED <<fmtVars, scopeVars>>

End ==
    /\ end
    /\ ExportHistory
    /\ last' = [op |-> "end", active |-> enabled]
    /\ UNCHANGED <<call_stack, root, expand_depth,
                   auto_end_registered, nodes, atexit_handlers, frames,
                   session, events, born, work>>
    /\ UNCHANGED <<fmtVars, scopeVars>>

Save(filename) ==
    /\ save_file' = StrV(filename)
    /\ _register_auto_end
    /\ start
    /\ StartHistory(2)
    /\ last' = [op |-> "save", active |-> enabled]
    /\ UNCHANGED <<expand_objects, expand_depth, interactive_html,
                   trace_stdlib, nodes, frames, output, born, exports>>
    /\ UNCHANGED <<fmtVars, scopeVars>>

Interactive(filename) ==
    /\ interactive_html' = TRUE
    /\ save_file' = StrV(filename)
    /\ _register_auto_end
    /\ start
    /\ StartHistory(2)
    /\ last' = [op |-> "interactive", active |-> enabled]
    /\ UNCHANGED <<expand_objects, expand_depth, trace_stdlib, nodes, frames,
                   output, born, exports>>
    /\ UNCHANGED <<fmtVars, scopeVars>>

\* a variant of expand that sets the configuration and does not start
Expand_ConfigOnly(depth) ==
    /\ expand_objects' = TRUE
    /\ expand_depth' = depth
    /\ _register_auto_end
    /\ work + 2 <= MaxWork
    /\ work' = work + 2
    /\ last' = [op |-> "expand", active |-> enabled]
    /\ UNCHANGED <<call_stack, root, enabled, settrace, session, events>>
    /\ UNCHANGED <<save_file, interactive_html, trace_stdlib, nodes, frames,
                   output, born, exports>>
    /\ UNCHANGED <<fmtVars, scopeVars>>

Expand(depth) ==
    /\ expand_objects' = TRUE
    /\ expand_depth' = depth
    /\ _register_auto_end
    /\ start
    /\ StartHistory(2)
    /\ last' = [op |-> "expand", active |-> enabled]
    /\ UNCHANGED <<save_file, interactive_html, trace_stdlib, nodes, frames,
                   output, born, exports>>
    /\ UNCHANGED <<fmtVars, scopeVars>>

IncludeStdlib ==
    /\ trace_stdlib' = TRUE
    /\ work + 2 <= MaxWork
    /\ work' = work + 2
    /\ last' = [op |-> "include_stdlib", active |-> enabled]
    /\ UNCHANGED <<call_stack, root, enabled, save_file, expand_objects,
                   expand_depth, interactive_html, auto_end_registered,
                   nodes, envVars, session, events, born, exports>>
    /\ UNCHANGED <<fmtVars, scopeVars>>

\* the configuration an event is processed under
Config == [im |-> interactive_html, eo |-> expand_objects,
           ed |-> expand_depth]

\* the program calls a routine while a trace function is installed: a frame
\* is pushed and the interpreter delivers its 'call' event; the frame gets a
\* local trace function when the callback returns one.  (Without a trace
\* function installed the interpreter delivers no event and the frame never
\* gets a local trace function: such calls are invisible to the session.)
CallStep(c) ==
    /\ settrace
    /\ tracer(c.name, c.file, "call", c.params, NoneV)
    /\ frames' = Append(frames,
           [name |-> c.name, file |-> c.file, ret |-> c.ret,
            f_trace |-> TracerResult(c.name, c.file),
            ses |-> IF enabled THEN session ELSE 0,
            ev |-> IF enabled THEN Len(events) + 1 ELSE 0])
    /\ events' = IF enabled
                 THEN Append(events,
                          [kind |-> "call", name |-> c.name, file |-> c.file,
                           params |-> c.params, arg |-> NoneV, match |-> 0,
                           ign |-> ShouldIgnore(c.file, c.name, trace_stdlib),
                           depth |-> Len(call_stack), cfg |-> Config])
                 ELSE events
    /\ born' = IF Len(nodes') > Len(nodes)
               THEN Append(born, [ses |-> session, ev |-> Len(events) + 1])
               ELSE born
    /\ work' = work + 1
    /\ last' = [op |-> "call", active |-> enabled]
    /\ UNCHANGED <<enabled, save_file, expand_objects, expand_depth,
                   interactive_html, auto_end_registered, trace_stdlib,
                   settrace, atexit_handlers, output, session, exports>>
    /\ UNCHANGED <<fmtVars, scopeVars>>

Call(c) ==
    /\ work + 1 <= MaxWork
    /\ Len(frames) < MaxFrames
    /\ CallStep(c)

\* the innermost routine returns: its frame is popped and, when it has a
\* local trace function and tracing is on, the interpreter delivers its
\* 'return' event
Return ==
    /\ frames # <<>>
    /\ LET fr == Top(frames)
           arg == fr.ret
       IN  /\ IF fr.f_trace /\ settrace
              THEN tracer(fr.name, fr.file, "return", <<>>, arg)
              ELSE UNCHANGED <<call_stack, root, nodes>>
           /\ events' =
                  IF fr.f_trace /\ settrace /\ enabled
                  THEN Append(events,
                           [kind |-> "return", name |-> fr.name,
                            file |-> fr.file, params |-> <<>>, arg |-> arg,
                            match |-> IF fr.ses = session THEN fr.ev ELSE 0,
                            ign |-> ShouldIgnore(fr.file, fr.name,
                                               trace_stdlib),
                            depth |-> Len(call_stack), cfg |-> Config])
                  ELSE events
    /\ frames' = Pop(frames)
    /\ last' = [op |-> "return", active |-> enabled]
    /\ UNCHANGED <<enabled, save_file, expand_objects, expand_depth,
                   interactive_html, auto_end_registered, trace_stdlib,
                   settrace, atexit_handlers, output, session, born, exports,
                   work>>
    /\ UNCHANGED <<fmtVars, scopeVars>>

Next ==
    \/ Start
    \/ End
    \/ \E filename \in SaveTargets : Save(filename)
    \/ \E filename \in HtmlTargets : Interactive(filename)
    \/ \E depth \in ExpandDepths : Expand(depth)
    \/ IncludeStdlib
    \/ \E c \in Routines : Call(c)
    \/ Return

Spec == Init /\ [][Next]_vars

\* a chain of nested calls without returns, max_depth + ChainExtra deep
ChainCall(c) ==
    /\ Len(frames) < max_depth + ChainExtra
    /\ CallStep(c)

NextChain ==
    \/ Start
    \/ \E c \in Routines : ChainCall(c)

SpecChain == Init /\ [][NextChain]_vars

(***************************************************************************)
(* The scoped use:  with trace: <body>.  The with statement calls          *)
(* __enter__ before the body and __exit__ after it, whether the body ended *)
(* normally or with an exception in flight; the exception goes on to the   *)
(* code around the block unless __exit__ returns a true value.  (An        *)
(* exception raised in a routine of the body first unwinds its frames: the *)
(* steps Return.)                                                          *)
(***************************************************************************)
\* how many with-blocks may be open at once (a with statement counts 1 in
\* the length of the run, and 1 more when it starts the session)
MaxScopes == 2

\* what __exit__ returns
ExitResult == FALSE

\* __enter__
ScopeEnter ==
    /\ scopes < MaxScopes
    /\ scopes' = scopes + 1
    /\ start
    /\ StartHistory(1)
    /\ last' = [op |-> "__enter__", active |-> enabled]
    /\ UNCHANGED <<save_file, expand_objects, expand_depth, interactive_html,
                   auto_end_registered, trace_stdlib, nodes, atexit_handlers,
                   frames, output, born, exports>>
    /\ UNCHANGED <<fmtVars, failure>>

\* a variant of the leaving of a with-block in which __exit__ ends the
\* session only when no exception is in flight
ScopeExit_EndOnSuccess(exc) ==
    /\ scopes > 0
    /\ scopes' = scopes - 1
    /\ IF exc
       THEN UNCHANGED <<settrace, enabled, output, expand_objects,
                        interactive_html, trace_stdlib, save_file, exports>>
       ELSE end /\ ExportHistory
    /\ failure' = [inflight |-> exc, propagates |-> exc /\ ~ExitResult]
    /\ last' = [op |-> "__exit__", active |-> enabled]
    /\ UNCHANGED <<call_stack, root, expand_depth,
                   auto_end_registered, nodes, atexit_handlers, frames,
                   session, events, born, work>>
    /\ UNCHANGED fmtVars

\* the body of a with-block is left, with an exception in flight (exc) or
\* without: __exit__(exc_type, exc_val, exc_tb)
ScopeExit(exc) ==
    /\ scopes > 0
    /\ scopes' = scopes - 1
    /\ end
    /\ ExportHistory
    /\ failure' = [inflight |-> exc, propagates |-> exc /\ ~ExitResult]
    /\ last' = [op |-> "__exit__", active |-> enabled]
    /\ UNCHANGED <<call_stack, root, expand_depth,
                   auto_end_registered, nodes, atexit_handlers, frames,
                   session, events, born, work>>
    /\ UNCHANGED fmtVars

NextScope ==
    \/ ScopeEnter
    \/ \E exc \in BOOLEAN : ScopeExit(exc)
    \/ Start
    \/ End
    \/ \E c \in Routines : Call(c)
    \/ Return

SpecScope == Init /\ [][NextScope]_vars

(***************************************************************************)
(* The callback on an Idle session.  start() and end() install and remove  *)
(* the callback together with enabled, so the interpreter calls it on an   *)
(* Idle session only when the program installs it by itself:               *)
(* sys.settrace(trace.tracer).                                             *)
(***************************************************************************)
InstallHook ==
    /\ ~settrace
    /\ settrace' = TRUE
    /\ work + 1 <= MaxWork
    /\ work' = work + 1
    /\ last' = [op |-> "settrace", active |-> enabled]
    /\ UNCHANGED <<tracerVars, atexit_handlers, frames, output, session,
                   events, born, exports>>
    /\ UNCHANGED <<fmtVars, scopeVars>>

NextIdle ==
    \/ Start
    \/ End
    \/ InstallHook
    \/ \E c \in Routines : Call(c)
    \/ Return

SpecIdle == Init /\ [][NextIdle]_vars

(***************************************************************************)
(* The ignore policy on its own: calls of routines whose names and files   *)
(* meet each of its rules, with trace_stdlib off and on.                   *)
(***************************************************************************)
\* a file of an installed package
SiteFile == <<"/","v","/","s","i","t","e","-","p","a","c","k","a","g","e","s","/","m",".","p","y">>
\* a file of a directory next to the standard library whose name begins
\* with the name of the directory of the standard library
SiblingFile == <<"/","u","s","r","/","l","i","b","/","p","y","t","h","o","n","3","x","/","m",".","p","y">>

IgnoreRoutines ==
    { [name |-> n, file |-> AppFile, params |-> <<>>, ret |-> NoneV] :
          n \in { <<"o","u","t","e","r">>, <<"<","l","a","m","b","d","a",">">>,
                  <<"_","a","u","t","o","_","e","n","d">> } }
    \cup { [name |-> <<"o","u","t","e","r">>, file |-> f, params |-> <<>>,
            ret |-> NoneV] : f \in {SiteFile, LibFile, SiblingFile} }

NextIgnore ==
    \/ Start
    \/ IncludeStdlib
    \/ \E c \in IgnoreRoutines : Call(c)
    \/ Return

SpecIgnore == Init /\ [][NextIgnore]_vars

(***************************************************************************)
(* The formatter on its own: _format_value and _to_serializable applied    *)
(* to one value under a configuration (expand_objects, expand_depth).      *)
(***************************************************************************)
\* a list nested k deep around 1:  1, [1], [[1]], ...
RECURSIVE Nest(_)
Nest(k) == IF k = 0 THEN IntV(1) ELSE ListV(<<Nest(k - 1)>>)

\* a tuple nested k deep around 1
RECURSIVE TupleNest(_)
TupleNest(k) == IF k = 0 THEN IntV(1) ELSE TupleV(<<TupleNest(k - 1)>>)

\* an object of the class P with a public and a private attribute
Plain == ObjV(<<"P">>, <<[k |-> <<"x">>, v |-> IntV(1)],
                         [k |-> <<"_", "h">>, v |-> IntV(2)]>>,
              TRUE, FALSE, FALSE)
\* an object with a __dict__ whose __repr__ raises
BadRepr == ObjV(<<"R">>, <<[k |-> <<"x">>, v |-> IntV(1)]>>,
                TRUE, FALSE, TRUE)
\* an object without a __dict__ (__slots__) whose __repr__ raises
BadReprSlots == ObjV(<<"S">>, <<>>, FALSE, FALSE, TRUE)
\* an object whose __dict__ cannot be looked at
BadDict == ObjV(<<"D">>, <<>>, TRUE, TRUE, FALSE)
\* an object that holds one whose __repr__ raises
Holder == ObjV(<<"H">>, <<[k |-> <<"x">>, v |-> BadReprSlots]>>,
               TRUE, FALSE, FALSE)

StringLengths == {3, max_param_len - 2, max_param_len - 1, max_param_len,
                  max_param_len + 1, max_param_len + 10, 120}

FormatValues ==
    {NoneV, IntV(1), IntV(-7), CycV, ListV(<<>>), TupleV(<<>>), SetV(<<>>),
     ListV(<<IntV(1), StrV(<<"a", "b">>)>>),
     ListV([i \in 1..11 |-> IntV(i)]),
     SetV(<<TupleNest(3)>>), SetV(<<IntV(1)>>),
     Plain, BadRepr, BadReprSlots, BadDict, Holder, ListV(<<BadReprSlots>>),
     ListV(<<Plain>>)}
        \cup {StrV(Repeat("a", n)) : n \in StringLengths}
        \cup {StrV(<<"b">> \o Repeat("a", n - 1)) : n \in StringLengths}
        \cup {Nest(k) : k \in 1..(serial_max_depth + 2)}
        \cup {TupleNest(k) : k \in 1..3}

FormatDepths == 0..3

InitFormat ==
    /\ call_stack = <<>>
    /\ root = 0
    /\ enabled = FALSE
    /\ save_file = NoneV
    /\ expand_objects \in BOOLEAN
    /\ expand_depth \in FormatDepths
    /\ interactive_html = FALSE
    /\ auto_end_registered = FALSE
    /\ trace_stdlib = FALSE
    /\ nodes = <<>>
    /\ settrace = FALSE
    /\ atexit_handlers = 0
    /\ frames = <<>>
    /\ output = <<>>
    /\ session = 0
    /\ events = <<>>
    /\ born = <<>>
    /\ exports = 0
    /\ work = 0
    /\ last = [op |-> "init", active |-> FALSE]
    /\ fmt_val = NoneV
    /\ fmt_res = [fn |-> "none", raised |-> FALSE, out |-> NoneV]
    /\ scopes = 0
    /\ failure = [inflight |-> FALSE, propagates |-> FALSE]

\* self._format_value(val)
FormatStep(val) ==
    /\ fmt_val' = val
    /\ fmt_res' =
           IF FormatRaises(val, max_param_len, 0, expand_objects, expand_depth)
           THEN [fn |-> "format", raised |-> TRUE, out |-> NoneV]
           ELSE [fn |-> "format", raised |-> FALSE,
                 out |-> StrV(_format_value(val))]
    /\ UNCHANGED <<tracerVars, envVars, histVars, scopeVars>>

\* self._to_serializable(val)
SerializeStep(val) ==
    /\ fmt_val' = val
    /\ fmt_res' =
           IF SerializeRaises(val, 0, serial_max_depth)
           THEN [fn |-> "toStructured", raised |-> TRUE, out |-> NoneV]
           ELSE [fn |-> "toStructured", raised |-> FALSE,
                 out |-> _to_serializable(val, 0, serial_max_depth)]
    /\ UNCHANGED <<tracerVars, envVars, histVars, scopeVars>>

NextFormat ==
    \/ \E val \in FormatValues : FormatStep(val)
    \/ \E val \in FormatValues : SerializeStep(val)

SpecFormat == InitFormat /\ [][NextFormat]_vars

(***************************************************************************)
(* Reading the history.  An event of the log is an enter (kind "call") or  *)
(* an exit (kind "return"); ign tells whether the ignore policy rejects    *)
(* it, match is the enter of the frame an exit belongs to (0 when that     *)
(* frame was not entered in this session), depth the length of the stack   *)
(* when the event arrived and cfg the configuration it arrived under.      *)
(***************************************************************************)
Max(S) == CHOOSE x \in S : \A y \in S : y <= x

IsEnter(log, i) == log[i].kind = "call" /\ ~log[i].ign
IsExit(log, i) == log[i].kind = "return" /\ ~log[i].ign

\* the exit event of enter i, 0 when it has not arrived
ExitOf(log, i) ==
    LET X == { j \in DOMAIN log : log[j].kind = "return" /\ log[j].match = i }
    IN  IF X = {} THEN 0 ELSE Max(X)

\* enter j is still open after event i
OpenAfter(log, j, i) ==
    j <= i /\ (ExitOf(log, j) = 0 \/ ExitOf(log, j) > i)

OpenEnters(log, i) ==
    { j \in 1..i : IsEnter(log, j) /\ OpenAfter(log, j, i) }

\* every exit is matched by a preceding unmatched enter, and the nesting of
\* the open enters stays within max_depth
WellFormed(log) ==
    /\ \A i \in DOMAIN log :
           IsExit(log, i) => log[i].match # 0 /\ IsEnter(log, log[i].match)
    /\ \A i \in DOMAIN log :
           IsEnter(log, i) => Cardinality(OpenEnters(log, i)) <= max_depth

NoneIgnored(log) == \A i \in DOMAIN log : ~log[i].ign

\* the enter that is the caller of enter c: the innermost enter open when c
\* arrived, 0 for a top-level enter
CallerOf(log, c) ==
    IF OpenEnters(log, c - 1) = {} THEN 0 ELSE Max(OpenEnters(log, c - 1))

\* an event was delivered to the Active session in this step
Delivered == Len(events') = Len(events) + 1
Ev == events'[Len(events')]

\* the nodes made in the current session
SessionNodes == { n \in 1..Len(nodes) : born[n].ses = session }

RECURSIVE Preorder(_, _), PreorderAll(_, _)
Preorder(heap, id) ==
    IF id = 0 THEN <<>>
    ELSE <<id>> \o PreorderAll(heap, heap[id].children)
PreorderAll(heap, ids) ==
    IF ids = <<>> THEN <<>>
    ELSE Preorder(heap, Head(ids)) \o PreorderAll(heap, Tail(ids))

Range(f) == { f[i] : i \in DOMAIN f }
Descendants(heap, id) == Range(Preorder(heap, id)) \ {id}

EnterNames(log) ==
    LET enters == SelectSeq(log, LAMBDA e : e.kind = "call")
    IN  [i \in DOMAIN enters |-> enters[i].name]

\* the value of an event as the session stores it
StoredBy(e, val) == Stored(val, e.cfg.im, e.cfg.eo, e.cfg.ed)

\* the children of every node of the session are the enters it is the caller
\* of, in the order of the log
ChildrenInCallOrder ==
    \A n \in SessionNodes :
        LET kids == nodes[n].children
        IN  /\ \A i \in DOMAIN kids :
                   /\ kids[i] \in SessionNodes
                   /\ CallerOf(events, born[kids[i]].ev) = born[n].ev
            /\ \A i, j \in DOMAIN kids :
                   i < j => born[kids[i]].ev < born[kids[j]].ev
            /\ \A c \in DOMAIN events :
                   IsEnter(events, c) /\ CallerOf(events, c) = born[n].ev
                       => \E i \in DOMAIN kids : born[kids[i]].ev = c

(***************************************************************************)
(* The claims.                                                             *)
(***************************************************************************)

\* C1 (as stated): after a well-formed sequence of events with none ignored
\* and nesting within max_depth, also one with several top-level calls, the
\* pre-order traversal of the tree at root lists the routine names in the
\* order of the enter events, and the descendants of a node are the enters
\* between its own enter and its exit.
C1_PreorderIsEnterOrder ==
    (WellFormed(events) /\ NoneIgnored(events)) =>
        /\ [i \in DOMAIN Preorder(nodes, root) |->
               nodes[Preorder(nodes, root)[i]].name] = EnterNames(events)
        /\ \A n \in SessionNodes :
               { born[d].ev : d \in Descendants(nodes, n) } =
                   { c \in DOMAIN events :
                       /\ events[c].kind = "call"
                       /\ born[n].ev < c
                       /\ OpenAfter(events, born[n].ev, c) }

\* C2 (as stated): with max_depth = N, a chain of N + ChainExtra nested
\* non-ignored enters with no exit makes exactly N nodes, the stack holds
\* at most N nodes and the tree is a single path of length N.
C2_ChainMakesMaxDepthNodes ==
    (/\ Len(events) = max_depth + ChainExtra
     /\ \A i \in DOMAIN events : IsEnter(events, i)) =>
        /\ Cardinality(SessionNodes) = max_depth
        /\ Len(call_stack) <= max_depth
        /\ Len(Preorder(nodes, root)) = max_depth
        /\ \A n \in SessionNodes : Len(nodes[n].children) <= 1

\* C3 (as stated): in an Active session every exit of a non-ignored routine
\* that arrives while the stack is non-empty pops the top node and sets its
\* return value, whatever the depth of the stack.
C3_ExitPopsTop ==
    [][(Delivered /\ Ev.kind = "return" /\ ~Ev.ign /\ call_stack # <<>>) =>
           /\ call_stack' = Pop(call_stack)
           /\ nodes'[Top(call_stack)].return_val = StoredBy(Ev, Ev.arg)]_vars

C5_StopIdempotent ==
    [][/\ (last'.op = "end" /\ ~enabled) =>
              UNCHANGED <<tracerVars, envVars, session, events, born, exports>>
       /\ (exports' # exports \/ output' # output) =>
              /\ last'.op = "end"
              /\ enabled /\ ~enabled'
              /\ exports' = exports + 1
      ]_vars

\* a second stop(), called while Idle after a session was exported
C5_Witness ==
    last = [op |-> "end", active |-> FALSE] /\ exports >= 1 /\ root # 0

\* C6: start() called while Active, by itself or by save(), interactive()
\* or expand(), changes neither the stack nor the root nor any node, and
\* the session stays Active; start() by itself changes nothing at all.
C6_StartWhileActiveNoop ==
    [][/\ (enabled /\ last'.op \in {"start", "save", "interactive", "expand"})
              => /\ UNCHANGED <<call_stack, root, nodes, settrace>>
                 /\ enabled'
       /\ (enabled /\ last'.op = "start")
              => UNCHANGED <<tracerVars, envVars, session, events, born,
                             exports>>
      ]_vars

\* a toggle has called start() in the middle of a session, with a call open
C6_Witness ==
    /\ last.op \in {"save", "interactive", "expand"}
    /\ last.active
    /\ call_stack # <<>>
    /\ root # 0

\* C7: every Idle -> Active transition empties the stack and clears the
\* root, so that every node the session holds - on the stack or in the tree
\* at root, which is the tree stop() exports - was made in the current
\* session, also when the session before was stopped with calls open.
C7_SessionsDoNotMix ==
    /\ [][(~enabled /\ enabled') => (call_stack' = <<>> /\ root' = 0)]_vars
    /\ [](\A n \in Range(call_stack) \cup Range(Preorder(nodes, root)) :
              n \in SessionNodes)

\* the second session has a tree while a non-ignored call of the first
\* session, which was stopped with that call open, has not returned
C7_Witness ==
    /\ session = 2
    /\ root # 0
    /\ \E i \in DOMAIN frames :
           /\ frames[i].ses = 1
           /\ \E n \in 1..Len(nodes) :
                  born[n].ses = 1 /\ nodes[n].name = frames[i].name

\* C8: an exit event that arrives while the stack is empty is dropped: it
\* changes no field of the session and no node.
C8_StrayExitDropped ==
    [][(Delivered /\ Ev.kind = "return" /\ call_stack = <<>>) =>
           UNCHANGED <<tracerVars, settrace, atexit_handlers, output>>]_vars

\* the last event was a non-ignored exit that arrived with the stack empty
\* while the session held a tree
C8_Witness ==
    /\ last.op = "return"
    /\ events # <<>>
    /\ IsExit(events, Len(events))
    /\ events[Len(events)].depth = 0
    /\ root # 0

C10_NodesCarryTheirEvents ==
    WellFormed(events) =>
        /\ \A c \in DOMAIN events :
               IsEnter(events, c) =>
                   Cardinality({ n \in SessionNodes : born[n].ev = c }) = 1
        /\ \A n \in SessionNodes :
               LET e == events[born[n].ev]
                   x == ExitOf(events, born[n].ev)
               IN  /\ IsEnter(events, born[n].ev)
                   /\ nodes[n].name = e.name
                   /\ nodes[n].file = e.file
                   /\ nodes[n].params =
                          StoredParams(e.params, e.cfg.im, e.cfg.eo, e.cfg.ed)
                   /\ nodes[n].return_val =
                          IF x = 0 THEN NoneV
                          ELSE StoredBy(events[x], events[x].arg)
        /\ ChildrenInCallOrder

\* enter outer(x=1), enter inner(y=...), exit, exit under the default
\* configuration: the root is outer(x=1) -> 3 with the single child inner,
\* whose argument and return value are cut to max_param_len
C10_Witness ==
    /\ Len(events) = 4
    /\ events[1].kind = "call" /\ events[2].kind = "call"
    /\ events[3].kind = "return" /\ events[4].kind = "return"
    /\ root # 0
    /\ nodes[root].name = <<"o", "u", "t", "e", "r">>
    /\ nodes[root].params = <<[k |-> <<"x">>, v |-> StrV(<<"1">>)]>>
    /\ nodes[root].return_val = StrV(<<"3">>)
    /\ Len(nodes[root].children) = 1
    /\ LET inner == nodes[nodes[root].children[1]]
       IN  /\ inner.name = <<"i", "n", "n", "e", "r">>
           /\ inner.children = <<>>
           /\ inner.return_val =
                  StrV(<<"'">> \o Repeat("a", 49) \o Ellipsis)
           /\ inner.params[1].v = inner.return_val

(***************************************************************************)
(* C11: the truncation law of the display-string mode.                     *)
(***************************************************************************)
\* the call C11 is about: _format_value, expand_objects off, applied to a
\* string longer than max_param_len
C11_Case ==
    /\ fmt_res.fn = "format"
    /\ ~expand_objects
    /\ fmt_val.t = "str"
    /\ Len(fmt_val.s) > max_param_len

RECURSIVE SerialDepth(_)
SerialDepth(res) ==
    IF res.type \in {"array", "tuple", "set"}
    THEN 1 + Max({0} \cup {SerialDepth(res.value[i]) : i \in DOMAIN res.value})
    ELSE IF res.type = "custom"
    THEN 1 + Max({0} \cup {SerialDepth(res.value[i].v) :
                               i \in DOMAIN res.value})
    ELSE 0

\* how deep the brackets of a display string nest (the strings of the model
\* hold no bracket of their own)
BracketDepth(s) ==
    LET opened(i) == Cardinality({j \in 1..i : s[j] \in {"[", "(", "{", "<"}})
        closed(i) == Cardinality({j \in 1..i : s[j] \in {"]", ")", "}", ">"}})
    IN  Max({0} \cup {opened(i) - closed(i) : i \in 1..Len(s)})

\* C12 as stated: the containers of the result of _to_serializable never
\* nest deeper than its max_depth, and with expand_objects on the display
\* string _format_value returns never nests deeper than expand_depth.
C12_DepthLaw ==
    /\ (fmt_res.fn = "toStructured" /\ ~fmt_res.raised)
           => SerialDepth(fmt_res.out) <= serial_max_depth
    /\ (fmt_res.fn = "format" /\ expand_objects /\ ~fmt_res.raised)
           => BracketDepth(fmt_res.out.s) <= expand_depth

(***************************************************************************)
(* C13: the formatter modes are total.                                     *)
(***************************************************************************)
\* C13 as stated: for every value, _format_value (expand_objects on or off)
\* and _to_serializable return a result and raise nothing.
C13_FormatterTotal ==
    fmt_res.fn \in {"format", "toStructured"} => ~fmt_res.raised

(***************************************************************************)
(* C14: what stop() does while Active, and in which order.                 *)
(***************************************************************************)
\* C14: an end() called while Active uninstalls the hook and makes the
\* session Idle before the exporters run (they run with no trace function
\* installed and the session disabled), runs the exporters the configuration
\* before the call selects - the interactive document when interactive_html
\* was set, else the console and, when save_file is set, the file - on the
\* finished tree, and leaves the session Idle with expand_objects,
\* interactive_html and trace_stdlib off.
C14_StopOrder ==
    [][(last'.op = "end" /\ enabled) =>
          /\ ~settrace' /\ ~enabled'
          /\ \A i \in DOMAIN output' :
                 ~output'[i].hook /\ ~output'[i].active
          /\ [i \in DOMAIN output' |-> output'[i].doc] =
                 IF interactive_html
                 THEN <<[sink |-> "html", target |-> save_file,
                         tree_data |-> _node_to_dict(root),
                         call_tree |-> renderNode(_node_to_dict(root))]>>
                 ELSE IF Truthy(save_file)
                 THEN <<[sink |-> "console", target |-> NoneV,
                         text |-> print_tree],
                        [sink |-> "file", target |-> save_file,
                         text |-> write_to_file]>>
                 ELSE <<[sink |-> "console", target |-> NoneV,
                         text |-> print_tree]>>
          /\ ~expand_objects' /\ ~interactive_html' /\ ~trace_stdlib'
      ]_vars

\* an interactive session that captured a call has been stopped
C14_Witness ==
    /\ last = [op |-> "end", active |-> TRUE]
    /\ Len(output) = 1 /\ output[1].doc.sink = "html"
    /\ ~output[1].doc.tree_data.isNone
    /\ ~enabled /\ ~interactive_html

(***************************************************************************)
(* C15: the configuration toggles.                                         *)
(***************************************************************************)
\* what start() does inside a toggle: nothing when the session is Active, a
\* new session with an empty stack and no root when it is Idle; Active
\* afterwards
C15_StartedIfIdle ==
    /\ enabled' /\ settrace'
    /\ enabled => (call_stack' = call_stack /\ root' = root
                      /\ session' = session)
    /\ ~enabled => (call_stack' = <<>> /\ root' = 0
                       /\ session' = session + 1)

\* C15: from any session state save, interactive and expand leave the
\* session Active, starting it only if it was Idle, with their field set;
\* include_stdlib sets trace_stdlib and changes neither the Idle/Active
\* state nor the stack nor the root.
C15_Toggles ==
    [][/\ last'.op = "save" =>
            /\ C15_StartedIfIdle
            /\ save_file' \in {StrV(f) : f \in SaveTargets}
       /\ last'.op = "interactive" =>
            /\ C15_StartedIfIdle
            /\ interactive_html'
            /\ save_file' \in {StrV(f) : f \in HtmlTargets}
       /\ last'.op = "expand" =>
            /\ C15_StartedIfIdle
            /\ expand_objects'
            /\ expand_depth' \in ExpandDepths
       /\ last'.op = "include_stdlib" =>
            /\ trace_stdlib'
            /\ UNCHANGED <<enabled, settrace, call_stack, root, nodes,
                           session>>
      ]_vars

\* expand() has been called on an Idle session that had a session before
C15_Witness ==
    /\ last = [op |-> "expand", active |-> FALSE]
    /\ session >= 2
    /\ enabled /\ expand_objects

(***************************************************************************)
(* C16: the registration of the automatic end with atexit.                 *)
(***************************************************************************)
\* C16 as stated: after a call of any of the four toggles (save,
\* interactive, expand, include_stdlib) _auto_end is registered with atexit
\* exactly once.
C16_RegisteredOnce ==
    last.op \in {"save", "interactive", "expand", "include_stdlib"} =>
        (atexit_handlers = 1 /\ auto_end_registered)

(***************************************************************************)
(* C17: the scoped use.                                                    *)
(***************************************************************************)
\* C17: entering a with-block does what start() does (the session is Active
\* afterwards, and a new one only if it was Idle); leaving it ends the
\* session whether or not an exception is in flight - the session is Idle,
\* the hook is uninstalled and the exporters have run if it was Active -
\* and an exception in flight propagates to the code around the block.
C17_ScopedUse ==
    [][/\ last'.op = "__enter__" => C15_StartedIfIdle
       /\ last'.op = "__exit__" =>
            /\ ~enabled' /\ ~settrace'
            /\ exports' = IF enabled THEN exports + 1 ELSE exports
            /\ failure'.propagates = failure'.inflight
      ]_vars

\* a with-block of an Active session that captured a call has been left
\* with an exception in flight
C17_Witness ==
    /\ last = [op |-> "__exit__", active |-> TRUE]
    /\ failure.inflight /\ failure.propagates
    /\ root # 0
    /\ ~enabled

(***************************************************************************)
(* C18: the interactive document of a session without calls.               *)
(***************************************************************************)
\* C18 as stated: when an interactive session is stopped with no call
\* captured (root absent), the document the exporter writes carries the
\* "no calls traced" indication, as the console and file exporters do for an absent
\* root.
C18_EmptyDocumentSaysSo ==
    \A i \in DOMAIN output :
        (output[i].doc.sink = "html" /\ output[i].doc.tree_data.isNone)
            => Contains(output[i].doc.call_tree, NoCallsTraced)

(***************************************************************************)
(* C19: the ignore policy.                                                 *)
(***************************************************************************)
\* the four rules of C19; a file lies under the standard-library root when
\* its path is the path of the root, a separator and more
C19_Rules(file_name, func_name) ==
    \/ func_name # <<>> /\ func_name[1] = "<"
    \/ func_name \in InternalNames
    \/ \E pattern \in exclude_patterns : Contains(file_name, pattern)
    \/ ~trace_stdlib /\ StartsWith(file_name, stdlib_path \o <<"/">>)

\* C19 as stated: _should_ignore(file_name, func_name) is true exactly when
\* one of the four rules holds - the name starts with '<', the name is one
\* of the tracer's own methods, the file contains an exclude pattern, or
\* trace_stdlib is off and the file lies under the standard-library root -
\* and the call of a routine it rejects changes nothing of the session.
C19_IgnoreRules ==
    [][(last'.op = "call" /\ enabled) =>
          LET fr == Top(frames')
          IN  /\ _should_ignore(fr.file, fr.name)
                     <=> C19_Rules(fr.file, fr.name)
              /\ _should_ignore(fr.file, fr.name) => UNCHANGED tracerVars
      ]_vars

(***************************************************************************)
(* C20: when a node changes.                                               *)
(***************************************************************************)
\* C20: in every step, a node whose children change is the top of the stack
\* and gains one child, the node made in that step; a node whose return_val
\* changes is the top of the stack and is popped in that step; no other
\* field of a node ever changes, and a node that is not on the stack - it
\* has been popped, or its session is over - does not change at all and
\* does not come back onto the stack.
C20_NodesChangeOnlyOnTop ==
    [][\A n \in DOMAIN nodes :
          /\ nodes'[n].name = nodes[n].name
          /\ nodes'[n].params = nodes[n].params
          /\ nodes'[n].file = nodes[n].file
          /\ nodes'[n].children # nodes[n].children =>
                 /\ call_stack # <<>> /\ Top(call_stack) = n
                 /\ Len(nodes') = Len(nodes) + 1
                 /\ nodes'[n].children
                        = Append(nodes[n].children, Len(nodes'))
          /\ nodes'[n].return_val # nodes[n].return_val =>
                 /\ call_stack # <<>> /\ Top(call_stack) = n
                 /\ call_stack' = Pop(call_stack)
          /\ n \notin Range(call_stack) =>
                 /\ nodes'[n] = nodes[n]
                 /\ n \notin Range(call_stack')
      ]_vars

\* a node that was popped with its return value set has a younger sibling,
\* which is on the stack
C20_Witness ==
    /\ Len(call_stack) = 2
    /\ LET parent == nodes[call_stack[1]]
       IN  /\ Len(parent.children) = 2
           /\ parent.children[2] = call_stack[2]
           /\ nodes[parent.children[1]].return_val # NoneV

(***************************************************************************)
(* C21: the representation kind of a finished node.                        *)
(***************************************************************************)
\* C21 as stated: when a node is finished, its return_val has the
\* representation kind of its params - both are the display strings of the
\* values of its events, or both are the raw values - whatever toggles were
\* called between its enter and its exit.
C21_SameKind ==
    [][\A n \in DOMAIN nodes :
          nodes'[n].return_val # nodes[n].return_val =>
              LET e == events[born[n].ev]
                  x == Ev
              IN  \E im \in BOOLEAN :
                      /\ nodes'[n].params =
                             StoredParams(e.params, im, e.cfg.eo, e.cfg.ed)
                      /\ nodes'[n].return_val =
                             Stored(x.arg, im, x.cfg.eo, x.cfg.ed)
      ]_vars

(***************************************************************************)
(* C22: the stack is a chain of the tree.                                  *)
(***************************************************************************)
\* C22: while the session is Active and the stack is not empty, the bottom
\* of the stack is root, every element above the bottom is the last child
\* of the element below it, and so every node of the stack is root or a
\* descendant of root.
C22_StackChain ==
    (enabled /\ call_stack # <<>>) =>
        /\ call_stack[1] = root
        /\ \A i \in 2..Len(call_stack) :
               LET kids == nodes[call_stack[i - 1]].children
               IN  kids # <<>> /\ kids[Len(kids)] = call_stack[i]
        /\ \A i \in DOMAIN call_stack :
               call_stack[i] \in {root} \cup Descendants(nodes, root)

\* two nodes are open, the inner one the second child of the outer one
C22_Witness ==
    /\ enabled
    /\ Len(call_stack) = 2
    /\ Len(nodes[call_stack[1]].children) = 2
    /\ nodes[call_stack[1]].children[1] # call_stack[2]

(***************************************************************************)
(* C23: the ignore policy and the exit events.                             *)
(***************************************************************************)
\* C23 as stated: an exit event the ignore policy rejects pops nothing and
\* sets no return_val; a node is popped only by the exit of a call that was
\* not ignored - the call that made it - so that a call the policy ignored
\* never finalizes the node of the captured call it is nested in.
C23_IgnoredExits ==
    [][(Delivered /\ Ev.kind = "return") =>
          /\ Ev.ign => UNCHANGED <<call_stack, root, nodes>>
          /\ call_stack' # call_stack =>
                 /\ Ev.match # 0
                 /\ ~events[Ev.match].ign
                 /\ born[Top(call_stack)].ev = Ev.match
      ]_vars

(***************************************************************************)
(* C24: the session after the nesting has hit the cap.                     *)
(***************************************************************************)
\* C24 as stated: the session recovers from nesting beyond max_depth - in
\* an Active session the stack is empty once every call of the program has
\* exited, and the enter of a top-level call the policy does not reject
\* makes a node, also after the cap was hit.
C24_Recovers ==
    /\ [](enabled /\ frames = <<>> => call_stack = <<>>)
    /\ [][(last'.op = "call" /\ enabled /\ frames = <<>>
              /\ ~ShouldIgnore(Top(frames').file, Top(frames').name,
                               trace_stdlib))
             => Len(nodes') = Len(nodes) + 1]_vars

(***************************************************************************)
(* C25: events that reach the callback while the session is Idle.          *)
(***************************************************************************)
\* C25: while the session is Idle - before the first start() and after
\* every end() - the call or the return of a routine, whose event the
\* interpreter hands to the callback when it is installed, leaves the
\* stack, the root and every node unchanged.
C25_IdleEventsNoop ==
    [][(last'.op \in {"call", "return"} /\ ~enabled) =>
          UNCHANGED <<call_stack, root, nodes>>]_vars

\* the exit of a call that was captured has reached the callback of the
\* session after end(), with the node of the call still on the stack
C25_Witness ==
    /\ last = [op |-> "return", active |-> FALSE]
    /\ settrace /\ ~enabled
    /\ call_stack # <<>> /\ root # 0
    /\ Len(frames) < Len(call_stack)

(***************************************************************************)
(* C26: what stop() keeps.                                                 *)
(***************************************************************************)
\* C26: end() changes, of the configuration and the tree, only
\* expand_objects, interactive_html and trace_stdlib, which are off after
\* an end() of an Active session: save_file, expand_depth, root, the stack,
\* the nodes and the atexit registration are as before (max_depth,
\* max_param_len and exclude_patterns are assigned nowhere).  start() keeps
\* save_file too, so the end() of a later session that is not interactive
\* writes the file of a save target set in an earlier one.
C26_StopKeepsTheRest ==
    [][/\ last'.op = "end" =>
            /\ UNCHANGED <<save_file, expand_depth, root, call_stack, nodes,
                           auto_end_registered, atexit_handlers>>
            /\ enabled =>
                   ~expand_objects' /\ ~interactive_html' /\ ~trace_stdlib'
            /\ ~enabled =>
                   UNCHANGED <<expand_objects, interactive_html, trace_stdlib>>
            /\ (enabled /\ ~interactive_html /\ Truthy(save_file)) =>
                   \E i \in DOMAIN output' :
                       /\ output'[i].doc.sink = "file"
                       /\ output'[i].doc.target = save_file
       /\ last'.op = "start" =>
            UNCHANGED <<save_file, expand_depth, expand_objects,
                        interactive_html, trace_stdlib, auto_end_registered>>
      ]_vars

\* the second session of the object has been stopped and has written the
\* file of the save target, with one toggle called in all
C26_Witness ==
    /\ last = [op |-> "end", active |-> TRUE]
    /\ session = 2 /\ exports = 2
    /\ Truthy(save_file)
    /\ atexit_handlers = 1
    /\ \E i \in DOMAIN output : output[i].doc.sink = "file"

====
